---- MODULE Spec2Model ----
(***************************************************************************)
(* Model of the SIYI gimbal codec (src/src/lib.rs, module transport):      *)
(* ZoomFactor::from_f32, SiyiCommand::to_bytes / to_bytes_with_seq,        *)
(* SiyiAck::from_bytes and crc16_cal.  The codec is stateless, so the      *)
(* state machine is a caller: it holds the arguments and the result of     *)
(* the call in progress.  Byte slices are sequences of 0..255; the Rust    *)
(* offset i is the sequence index i + 1.                                   *)
(***************************************************************************)
EXTENDS Integers, Sequences, FiniteSets, TLC

VARIABLES
  pc,               \* position of the caller
  overflow_checks,  \* build profile: TRUE = integer overflow panics (debug)
  float, zoom,      \* argument (in tenths) and result of ZoomFactor::from_f32
  cmd, seq, frame,  \* arguments and result of to_bytes / to_bytes_with_seq
  bytes, ack,       \* argument and outcome of SiyiAck::from_bytes
  orig, bit,        \* the slice before a bit of it was flipped, and the bit
  ptr, crc,         \* argument and result of crc16_cal
  prev_ptr, prev_crc \* the previous crc16_cal call (before append / swap)

vars == <<pc, overflow_checks, float, zoom, cmd, seq, frame, bytes, ack,
          orig, bit, ptr, crc, prev_ptr, prev_crc>>

(***************************************************************************)
(* Bounds of the model.                                                    *)
(***************************************************************************)
MaxZoomTenths == 320   \* from_f32 inputs range over -MaxZoomTenths..MaxZoomTenths
MaxSeq == 1            \* sequence bytes 0..MaxSeq (and 16, 255)
MaxShort == 3          \* every slice over SyncAlphabet up to this length
MaxCrcLen == 3         \* crc16_cal inputs: every sequence over CrcAlphabet up to this length
MaxFlipLen == 32       \* slices up to this length have every one of their bits flipped

(***************************************************************************)
(* Integer helpers: Rust's fixed-width integers.                           *)
(***************************************************************************)

\* Variant of Clamp that leaves out the lower bound
ClampUpperOnly(v, lo, hi) == IF v > hi THEN hi ELSE v
\* Ord::clamp(self, lo, hi)
Clamp(v, lo, hi) == IF v < lo THEN lo ELSE IF v > hi THEN hi ELSE v

\* a ^ b on n-bit unsigned operands, bit by bit
RECURSIVE BitXorBits(_, _, _)
BitXorBits(a, b, n) ==
  IF n = 0 THEN 0
  ELSE (((a % 2) + (b % 2)) % 2) + 2 * BitXorBits(a \div 2, b \div 2, n - 1)

\* a ^ b on u8 operands, tabulated once
Xor8 == [a \in 0 .. 255 |-> [b \in 0 .. 255 |-> BitXorBits(a, b, 8)]]

\* a ^ b on u8 and on u16 operands
BitXor8(a, b) == Xor8[a][b]
BitXor16(a, b) == 256 * Xor8[a \div 256][b \div 256] + Xor8[a % 256][b % 256]

\* i16::to_le_bytes / u16::to_le_bytes: two's complement, low byte first
ToLeBytes16(v) == LET u == v % 65536 IN <<u % 256, u \div 256>>
\* u8::to_be_bytes / i8::to_be_bytes: the single two's-complement byte
ToBeBytes8(v) == <<v % 256>>
\* reinterpretation of a 16-bit pattern as i16
AsI16(u) == IF u >= 32768 THEN u - 65536 ELSE u
\* i16::from_le_bytes([lo, hi]) and i16::from_be_bytes([hi, lo])
I16FromLeBytes(b0, b1) == AsI16(b0 + 256 * b1)
I16FromBeBytes(b0, b1) == AsI16(256 * b0 + b1)
\* u16::from_le_bytes([lo, hi])
U16FromLeBytes(b0, b1) == b0 + 256 * b1

(***************************************************************************)
(* Checksum engine.                                                        *)
(***************************************************************************)
CRC16_TAB ==
  <<
    \h0, \h1021, \h2042, \h3063, \h4084, \h50a5, \h60c6, \h70e7, \h8108, \h9129, \ha14a,
    \hb16b, \hc18c, \hd1ad, \he1ce, \hf1ef, \h1231, \h210, \h3273, \h2252, \h52b5, \h4294,
    \h72f7, \h62d6, \h9339, \h8318, \hb37b, \ha35a, \hd3bd, \hc39c, \hf3ff, \he3de, \h2462,
    \h3443, \h420, \h1401, \h64e6, \h74c7, \h44a4, \h5485, \ha56a, \hb54b, \h8528, \h9509,
    \he5ee, \hf5cf, \hc5ac, \hd58d, \h3653, \h2672, \h1611, \h630, \h76d7, \h66f6, \h5695,
    \h46b4, \hb75b, \ha77a, \h9719, \h8738, \hf7df, \he7fe, \hd79d, \hc7bc, \h48c4, \h58e5,
    \h6886, \h78a7, \h840, \h1861, \h2802, \h3823, \hc9cc, \hd9ed, \he98e, \hf9af, \h8948,
    \h9969, \ha90a, \hb92b, \h5af5, \h4ad4, \h7ab7, \h6a96, \h1a71, \ha50, \h3a33, \h2a12,
    \hdbfd, \hcbdc, \hfbbf, \heb9e, \h9b79, \h8b58, \hbb3b, \hab1a, \h6ca6, \h7c87, \h4ce4,
    \h5cc5, \h2c22, \h3c03, \hc60, \h1c41, \hedae, \hfd8f, \hcdec, \hddcd, \had2a, \hbd0b,
    \h8d68, \h9d49, \h7e97, \h6eb6, \h5ed5, \h4ef4, \h3e13, \h2e32, \h1e51, \he70, \hff9f,
    \hefbe, \hdfdd, \hcffc, \hbf1b, \haf3a, \h9f59, \h8f78, \h9188, \h81a9, \hb1ca, \ha1eb,
    \hd10c, \hc12d, \hf14e, \he16f, \h1080, \ha1, \h30c2, \h20e3, \h5004, \h4025, \h7046,
    \h6067, \h83b9, \h9398, \ha3fb, \hb3da, \hc33d, \hd31c, \he37f, \hf35e, \h2b1, \h1290,
    \h22f3, \h32d2, \h4235, \h5214, \h6277, \h7256, \hb5ea, \ha5cb, \h95a8, \h8589, \hf56e,
    \he54f, \hd52c, \hc50d, \h34e2, \h24c3, \h14a0, \h481, \h7466, \h6447, \h5424, \h4405,
    \ha7db, \hb7fa, \h8799, \h97b8, \he75f, \hf77e, \hc71d, \hd73c, \h26d3, \h36f2, \h691,
    \h16b0, \h6657, \h7676, \h4615, \h5634, \hd94c, \hc96d, \hf90e, \he92f, \h99c8, \h89e9,
    \hb98a, \ha9ab, \h5844, \h4865, \h7806, \h6827, \h18c0, \h8e1, \h3882, \h28a3, \hcb7d,
    \hdb5c, \heb3f, \hfb1e, \h8bf9, \h9bd8, \habbb, \hbb9a, \h4a75, \h5a54, \h6a37, \h7a16,
    \haf1, \h1ad0, \h2ab3, \h3a92, \hfd2e, \hed0f, \hdd6c, \hcd4d, \hbdaa, \had8b, \h9de8,
    \h8dc9, \h7c26, \h6c07, \h5c64, \h4c45, \h3ca2, \h2c83, \h1ce0, \hcc1, \hef1f, \hff3e,
    \hcf5d, \hdf7c, \haf9b, \hbfba, \h8fd9, \h9ff8, \h6e17, \h7e36, \h4e55, \h5e74, \h2e93,
    \h3eb2, \hed1, \h1ef0
  >>

\* Variant of Crc16Step that indexes the table with the low byte of crc
Crc16StepLowIndex(c, byte) ==
  BitXor16((c * 256) % 65536, CRC16_TAB[BitXor8(byte, c % 256) + 1])
\* One iteration of the loop of crc16_cal (crc is u16, so << truncates)
Crc16Step(c, byte) ==
  LET temp == (c \div 256) % 256
      index == BitXor8(byte, temp)
      oldcrc16 == CRC16_TAB[index + 1]
  IN  BitXor16((c * 256) % 65536, oldcrc16)

\* The loop of crc16_cal over ptr[lo..hi] (1-based, in order) from
\* accumulator c.  The range is halved so that a long slice does not nest
\* deeply; the accumulator is a u16, never negative, and comparing it makes
\* TLC evaluate the first half before it descends into the second.
RECURSIVE Crc16Loop(_, _, _, _)
Crc16Loop(c, p, lo, hi) ==
  IF lo > hi \/ c < 0 THEN c
  ELSE IF lo = hi THEN Crc16Step(c, p[lo])
  ELSE Crc16Loop(Crc16Loop(c, p, lo, (lo + hi) \div 2), p, ((lo + hi) \div 2) + 1, hi)

crc16_cal(p) == Crc16Loop(0, p, 1, Len(p))

(***************************************************************************)
(* Command model.                                                          *)
(***************************************************************************)
\* `x as u8` on a float: truncation toward zero, saturating at 0 and 255
AsU8Saturating(x) == Clamp(x, 0, 255)
\* f32::floor, the argument and the result in tenths / units
Floor(t) == t \div 10
\* f32::fract() * 10.0 truncated toward zero: the signed first decimal digit
FractTimes10(t) == IF t >= 0 THEN t % 10 ELSE -((-t) % 10)

ZoomFactor(i, f) == [int |-> i, fract |-> f]

from_f32(t) ==
  ZoomFactor(Clamp(AsU8Saturating(Floor(t)), 1, 30),
             Clamp(AsU8Saturating(FractTimes10(t)), 0, 9))

ZoomModeByte(z) ==
  CASE z = "ZoomIn" -> 1
    [] z = "StopZoom" -> 0
    [] z = "ZoomOut" -> -1

GimbalModeByte(m) ==
  CASE m = "LockMode" -> 0
    [] m = "FollowMode" -> 1
    [] m = "FPVMode" -> 2

CenterPosByte(p) ==
  CASE p = "Default" -> 0
    [] p = "Pos0" -> 1

ControlAngle(yaw, pitch) == [kind |-> "ControlAngle", yaw |-> yaw, pitch |-> pitch]
AbsZoom(z) == [kind |-> "AbsZoom", zoom |-> z]
AutoZoom(z) == [kind |-> "AutoZoom", zoom |-> z]
WorkingMode(m) == [kind |-> "WorkingMode", mode |-> m]
Center(p) == [kind |-> "Center", center_pos |-> p]

(***************************************************************************)
(* Frame encoder.                                                          *)
(***************************************************************************)
\* Variant of ExtendCrc that writes the checksum high byte first
ExtendCrcBigEndian(byte_arr) ==
  LET c == crc16_cal(byte_arr) IN byte_arr \o <<c \div 256, c % 256>>
\* byte_arr.extend(crc16_cal(&byte_arr).to_le_bytes())
ExtendCrc(byte_arr) == byte_arr \o ToLeBytes16(crc16_cal(byte_arr))

ControlAngleBytes(yaw, pitch, s) ==
  ExtendCrc(<<\h55, \h66, \h01, \h04, \h00, s, \h00, \h0e>>
            \o ToLeBytes16(Clamp(yaw, -1350, 1350))
            \o ToLeBytes16(Clamp(pitch, -900, 250)))

\* Variant of AbsZoomBytes that writes the fractional digit first
AbsZoomBytesFractFirst(z, s) ==
  ExtendCrc(<<\h55, \h66, \h01, \h02, \h00, s, \h00, \h0f>>
            \o ToBeBytes8(z.fract) \o ToBeBytes8(z.int))
AbsZoomBytes(z, s) ==
  ExtendCrc(<<\h55, \h66, \h01, \h02, \h00, s, \h00, \h0f>>
            \o ToBeBytes8(z.int) \o ToBeBytes8(z.fract))

AutoZoomBytes(z, s) ==
  ExtendCrc(<<\h55, \h66, \h01, \h01, \h00, s, \h00, \h05>>
            \o ToBeBytes8(ZoomModeByte(z)))

WorkingModeBytes(m, s) ==
  ExtendCrc(<<\h55, \h66, \h01, \h01, \h00, s, \h00, \h19>>
            \o ToBeBytes8(GimbalModeByte(m)))

CenterBytes(p, s) ==
  ExtendCrc(<<\h55, \h66, \h01, \h01, \h00, s, \h00, \h08>>
            \o ToBeBytes8(CenterPosByte(p)))

to_bytes_with_seq(c, s) ==
  CASE c.kind = "ControlAngle" -> ControlAngleBytes(c.yaw, c.pitch, s)
    [] c.kind = "AbsZoom" -> AbsZoomBytes(c.zoom, s)
    [] c.kind = "AutoZoom" -> AutoZoomBytes(c.zoom, s)
    [] c.kind = "WorkingMode" -> WorkingModeBytes(c.mode, s)
    [] c.kind = "Center" -> CenterBytes(c.center_pos, s)

to_bytes(c) == to_bytes_with_seq(c, 0)

(***************************************************************************)
(* Acknowledgment model and frame decoder.                                 *)
(***************************************************************************)
\* bytes[i], valid when InBounds(b, i); an index out of bounds panics
At(b, i) == b[i + 1]
InBounds(b, i) == i < Len(b)

\* The three outcomes of a call: a panic, None, Some(value)
Panic == [tag |-> "Panic"]
None == [tag |-> "None"]
Some(v) == [tag |-> "Some", value |-> v]

AckCenter(r) == [kind |-> "Center", result |-> r]
AckControlAngle(a) == [kind |-> "ControlAngle", angles |-> a]

\* SiyiAckId::try_from(value)
try_from(value) ==
  CASE value = \h08 -> "Center"
    [] value = \h0E -> "ControlAngle"
    [] OTHER -> "Err"

\* if bytes[0] != 0x55 || bytes[1] != 0x66 { return None; }
\* evaluated left to right, the second index only when the first test is false
SyncCheck(b) ==
  IF ~InBounds(b, 0) THEN "panic"
  ELSE IF At(b, 0) # \h55 THEN "none"
  ELSE IF ~InBounds(b, 1) THEN "panic"
  ELSE IF At(b, 1) # \h66 THEN "none"
  ELSE "pass"

\* if bytes.len() < 8 || 10 + i16::from_le_bytes([bytes[3], bytes[4]]) as usize
\*    != bytes.len() { return None; }
\* `as usize` sign-extends a negative i16 d to 2^W + d (W the width of usize),
\* so 10 + (2^W + d) exceeds usize::MAX exactly when d is in -10..-1: with
\* overflow checks that panics, without them it wraps to 10 + d.  For
\* d < -10 the sum is above isize::MAX, the largest length a slice can have.
LengthCheck(b, oc) ==
  IF Len(b) < 8 THEN "none"
  ELSE LET d == I16FromLeBytes(At(b, 3), At(b, 4))
       IN  IF d >= 0
           THEN IF 10 + d # Len(b) THEN "none" ELSE "pass"
           ELSE IF 10 + d >= 0
                THEN IF oc THEN "panic"
                     ELSE IF 10 + d # Len(b) THEN "none" ELSE "pass"
                ELSE "none"

\* let crc = u16::from_le_bytes([bytes[len - 2], bytes[len - 1]]);
\* if crc16_cal(&bytes[..len - 2]) != crc { return None; }
CrcCheck(b) ==
  LET n == Len(b)
      stored == U16FromLeBytes(At(b, n - 2), At(b, n - 1))
  IN  IF crc16_cal(SubSeq(b, 1, n - 2)) # stored THEN "none" ELSE "pass"

\* The offsets each arm of the match reads as payload
PayloadReads(id) ==
  CASE id = "Center" -> {8}
    [] id = "ControlAngle" -> 8 .. 13
    [] OTHER -> {}

\* Variant of ControlAngles that reads yaw before pitch
ControlAnglesYawFirst(b) ==
  [yaw |-> I16FromBeBytes(At(b, 8), At(b, 9)),
   pitch |-> I16FromBeBytes(At(b, 10), At(b, 11)),
   roll |-> I16FromBeBytes(At(b, 12), At(b, 13))]
\* ControlAngles { pitch: .., yaw: .., roll: .. }
ControlAngles(b) ==
  [pitch |-> I16FromBeBytes(At(b, 8), At(b, 9)),
   yaw |-> I16FromBeBytes(At(b, 10), At(b, 11)),
   roll |-> I16FromBeBytes(At(b, 12), At(b, 13))]

\* match SiyiAckId::try_from(bytes[7]).ok()? { .. }
Dispatch(b) ==
  LET id == try_from(At(b, 7))
  IN  IF id = "Err" THEN None
      ELSE IF \E i \in PayloadReads(id) : ~InBounds(b, i) THEN Panic
      ELSE IF id = "Center"
           THEN Some(AckCenter(IF At(b, 8) # 0 THEN "Success" ELSE "Error"))
           ELSE Some(AckControlAngle(ControlAngles(b)))

from_bytes(b, oc) ==
  LET sync == SyncCheck(b)
  IN  IF sync = "panic" THEN Panic
      ELSE IF sync = "none" THEN None
      ELSE LET length == LengthCheck(b, oc)
           IN  IF length = "panic" THEN Panic
               ELSE IF length = "none" THEN None
               ELSE IF CrcCheck(b) = "none" THEN None
               ELSE Dispatch(b)

(***************************************************************************)
(* Inputs of the calls.                                                    *)
(***************************************************************************)
I16Max == 32767

SeqBytes == (0 .. MaxSeq) \cup {16, 255}

\* i16 arguments of ControlAngle: the clamp bounds, their neighbours, extremes
AngleSamples ==
  {-32768, -1351, -1350, -901, -900, -90, 0, 250, 251, 1350, 1351, 32767}

\* f32 arguments of from_f32, in tenths (4.5 is 45)
ZoomInputs ==
  ((-MaxZoomTenths) .. MaxZoomTenths) \cup {2549, 2550, 2555, 2560, 2565, 9999, -9999}

\* f32 arguments of the AbsZoom commands that are encoded
EncodedZoomInputs == {-5, 5, 10, 45, 299, 300, 305, 2565}

\* The commands that are encoded, one set per variant of SiyiCommand
ControlAngleCommands == {ControlAngle(y, p) : y \in AngleSamples, p \in AngleSamples}
AbsZoomCommands == {AbsZoom(from_f32(t)) : t \in EncodedZoomInputs}
AutoZoomCommands == {AutoZoom(z) : z \in {"ZoomIn", "StopZoom", "ZoomOut"}}
WorkingModeCommands == {WorkingMode(m) : m \in {"LockMode", "FollowMode", "FPVMode"}}
CenterCommands == {Center(p) : p \in {"Default", "Pos0"}}

\* A frame as the device sends it: the body followed by its checksum
WithChecksum(body) == body \o ToLeBytes16(crc16_cal(body))
WithBadChecksum(body) == body \o ToLeBytes16(crc16_cal(body) + 1)

Header(ctrl, data_len, s, id) ==
  <<\h55, \h66, ctrl>> \o ToLeBytes16(data_len) \o <<s, \h00, id>>

Payloads ==
  { <<>>, <<0>>, <<1>>, <<\hFF>>, <<1, 2>>, <<1, 2, 3>>, <<0, 0, \hA6, \hFF>>,
    <<1, 2, 3, 4, 5>>, <<\hFF, \hA6, \h00, \h64, \h00, \h00>>,
    <<1, 2, 3, 4, 5, 6>>, <<\h80, \h00, \h7F, \hFF, \hFF, \hFF>>,
    <<1, 2, 3, 4, 5, 6, 7>> }

AckIds == {\h08, \h0E, \h0F, \h00}

\* Frames whose length field is the length of their payload
ConsistentFrames ==
  {WithChecksum(Header(\h02, Len(p), s, id) \o p) :
     p \in Payloads, s \in {0, 16}, id \in AckIds}

\* Frames whose length field is not the length of their payload
InconsistentFrames ==
  {WithChecksum(Header(\h02, d, 0, id) \o p) :
     p \in {<<>>, <<1>>, <<1, 2, 3, 4, 5, 6>>},
     d \in {-32768, -11, -10, -3, -2, -1, 0, 2, 7, 256, 32767},
     id \in {\h08, \h0E}}

BadChecksumFrames ==
  {WithBadChecksum(Header(\h02, Len(p), 0, id) \o p) :
     p \in {<<1>>, <<1, 2, 3, 4, 5, 6>>}, id \in {\h08, \h0E}}

\* Slices of 8 and 9 bytes whose length field is -2 and -1 and whose
\* checksum bytes fall on offset 7, the identifier
NegativeLengthFrames ==
  { WithChecksum(<<\h55, \h66, 1, \hFE, \hFF, 23>>),
    WithChecksum(<<\h55, \h66, 1, \hFE, \hFF, 36>>),
    WithChecksum(<<\h55, \h66, 0, \hFF, \hFF, 19, 1>>),
    WithChecksum(<<\h55, \h66, 0, \hFF, \hFF, 74, 0>>),
    WithChecksum(<<\h55, \h66, 0, \hFF, \hFF, 0, 0>>) }

SyncAlphabet == {\h55, \h66, \h00}
ShortSlices == UNION {[1 .. n -> SyncAlphabet] : n \in 0 .. MaxShort}

CenterAck == WithChecksum(Header(\h02, 1, 0, \h08) \o <<1>>)
Prefixes == {SubSeq(CenterAck, 1, n) : n \in 0 .. 10}

\* The argument of from_bytes is held as a description of the slice, the
\* bytes prefix, then `zeros` bytes 00, then the bytes suffix, so that a
\* long slice stays readable; Bytes is the slice itself.
Slice(p, z, q) == [prefix |-> p, zeros |-> z, suffix |-> q]
Plain(b) == Slice(b, 0, <<>>)
Bytes(s) == s.prefix \o [i \in 1 .. s.zeros |-> \h00] \o s.suffix

\* The longest frame the length field can describe, a Center
\* acknowledgment of I16Max payload bytes: 01 and then zeros
LongestFrame ==
  LET body == Slice(Header(\h02, I16Max, 0, \h08) \o <<1>>, I16Max - 1, <<>>)
  IN  Slice(body.prefix, body.zeros, ToLeBytes16(crc16_cal(Bytes(body))))

Slices ==
  {Plain(b) : b \in ShortSlices \cup Prefixes \cup ConsistentFrames
                     \cup InconsistentFrames \cup BadChecksumFrames
                     \cup NegativeLengthFrames}
  \cup {LongestFrame}

\* The bits of a slice that are flipped: all of them, and of a slice longer
\* than MaxFlipLen bytes those of its length field, offsets 3 and 4 (each
\* other bit costs a checksum of the whole slice)
FlipBits(s) ==
  IF s.zeros = 0 /\ s.suffix = <<>> /\ Len(s.prefix) <= MaxFlipLen
  THEN 0 .. (8 * Len(s.prefix) - 1)
  ELSE 24 .. 39
FlipBit(s, k) ==
  [s EXCEPT !.prefix = [@ EXCEPT ![(k \div 8) + 1] = BitXor8(@, 2 ^ (k % 8))]]

CrcAlphabet == {\h00, \h01, \hBD, \hFF}
CrcInputs ==
  UNION {[1 .. n -> CrcAlphabet] : n \in 0 .. MaxCrcLen} \cup {<<\hBD, \hCB>>}
Swap(p, i, j) == [p EXCEPT ![i] = p[j], ![j] = p[i]]

(***************************************************************************)
(* The caller.                                                             *)
(***************************************************************************)
NoZoom == ZoomFactor(0, 0)
NoCmd == [kind |-> "None"]
NotCalled == [tag |-> "NotCalled"]
NoSlice == Plain(<<>>)
NoBit == -1

Init ==
  \/ /\ pc = "zoom"
     /\ overflow_checks = FALSE
     /\ float \in ZoomInputs
     /\ zoom = NoZoom
     /\ cmd = NoCmd /\ seq = 0 /\ frame = <<>>
     /\ bytes = NoSlice /\ ack = NotCalled /\ orig = NoSlice /\ bit = NoBit
     /\ ptr = <<>> /\ crc = 0 /\ prev_ptr = <<>> /\ prev_crc = 0
  \/ /\ pc = "encode"
     /\ overflow_checks \in BOOLEAN
     /\ float = 0 /\ zoom = NoZoom
     /\ \/ cmd \in ControlAngleCommands
        \/ cmd \in AbsZoomCommands
        \/ cmd \in AutoZoomCommands
        \/ cmd \in WorkingModeCommands
        \/ cmd \in CenterCommands
     /\ seq \in SeqBytes /\ frame = <<>>
     /\ bytes = NoSlice /\ ack = NotCalled /\ orig = NoSlice /\ bit = NoBit
     /\ ptr = <<>> /\ crc = 0 /\ prev_ptr = <<>> /\ prev_crc = 0
  \/ /\ pc = "decode"
     /\ overflow_checks \in BOOLEAN
     /\ float = 0 /\ zoom = NoZoom
     /\ cmd = NoCmd /\ seq = 0 /\ frame = <<>>
     /\ bytes \in Slices /\ ack = NotCalled /\ orig = NoSlice /\ bit = NoBit
     /\ ptr = <<>> /\ crc = 0 /\ prev_ptr = <<>> /\ prev_crc = 0
  \/ /\ pc = "crc"
     /\ overflow_checks = FALSE
     /\ float = 0 /\ zoom = NoZoom
     /\ cmd = NoCmd /\ seq = 0 /\ frame = <<>>
     /\ bytes = NoSlice /\ ack = NotCalled /\ orig = NoSlice /\ bit = NoBit
     /\ ptr \in CrcInputs /\ crc = 0 /\ prev_ptr = <<>> /\ prev_crc = 0

\* ZoomFactor::from_f32(float)
FromF32 ==
  /\ pc = "zoom"
  /\ zoom' = from_f32(float)
  /\ pc' = "zoom_done"
  /\ UNCHANGED <<overflow_checks, float, cmd, seq, frame, bytes, ack, orig, bit,
                 ptr, crc, prev_ptr, prev_crc>>

\* cmd.to_bytes_with_seq(seq)
ToBytesWithSeq ==
  /\ pc = "encode"
  /\ frame' = to_bytes_with_seq(cmd, seq)
  /\ pc' = "encoded"
  /\ UNCHANGED <<overflow_checks, float, zoom, cmd, seq, bytes, ack, orig, bit,
                 ptr, crc, prev_ptr, prev_crc>>

\* cmd.to_bytes()
ToBytes ==
  /\ pc = "encode"
  /\ frame' = to_bytes(cmd)
  /\ pc' = "encoded_default"
  /\ UNCHANGED <<overflow_checks, float, zoom, cmd, seq, bytes, ack, orig, bit,
                 ptr, crc, prev_ptr, prev_crc>>

\* SiyiAck::from_bytes(&frame): the encoder's frame handed to the decoder
Loopback ==
  /\ pc \in {"encoded", "encoded_default"}
  /\ bytes' = Plain(frame)
  /\ ack' = from_bytes(frame, overflow_checks)
  /\ pc' = "looped"
  /\ UNCHANGED <<overflow_checks, float, zoom, cmd, seq, frame, orig, bit,
                 ptr, crc, prev_ptr, prev_crc>>

\* SiyiAck::from_bytes(&bytes)
FromBytes ==
  /\ pc = "decode"
  /\ ack' = from_bytes(Bytes(bytes), overflow_checks)
  /\ pc' = "decoded"
  /\ UNCHANGED <<overflow_checks, float, zoom, cmd, seq, frame, bytes, orig, bit,
                 ptr, crc, prev_ptr, prev_crc>>

\* One bit of an accepted slice is flipped in transit and the slice decoded again
Corrupt ==
  /\ pc = "decoded"
  /\ ack.tag = "Some"
  /\ bit = NoBit
  /\ \E k \in FlipBits(bytes) :
       /\ bit' = k
       /\ bytes' = FlipBit(bytes, k)
  /\ orig' = bytes
  /\ ack' = NotCalled
  /\ pc' = "decode"
  /\ UNCHANGED <<overflow_checks, float, zoom, cmd, seq, frame,
                 ptr, crc, prev_ptr, prev_crc>>

\* crc16_cal(&ptr)
Crc16Cal ==
  /\ pc = "crc"
  /\ crc' = crc16_cal(ptr)
  /\ pc' = "crc_done"
  /\ UNCHANGED <<overflow_checks, float, zoom, cmd, seq, frame, bytes, ack, orig,
                 bit, ptr, prev_ptr, prev_crc>>

\* crc16_cal of the same bytes followed by one more
CrcAppended ==
  /\ pc = "crc_done"
  /\ \E b \in CrcAlphabet :
       /\ ptr' = Append(ptr, b)
       /\ crc' = crc16_cal(Append(ptr, b))
  /\ prev_ptr' = ptr
  /\ prev_crc' = crc
  /\ pc' = "crc_appended"
  /\ UNCHANGED <<overflow_checks, float, zoom, cmd, seq, frame, bytes, ack, orig, bit>>

\* crc16_cal of the same bytes with two of them exchanged
CrcSwapped ==
  /\ pc = "crc_done"
  /\ \E i \in 1 .. Len(ptr), j \in 1 .. Len(ptr) :
       /\ i < j
       /\ ptr' = Swap(ptr, i, j)
       /\ crc' = crc16_cal(Swap(ptr, i, j))
  /\ prev_ptr' = ptr
  /\ prev_crc' = crc
  /\ pc' = "crc_swapped"
  /\ UNCHANGED <<overflow_checks, float, zoom, cmd, seq, frame, bytes, ack, orig, bit>>

Next ==
  \/ FromF32
  \/ ToBytesWithSeq
  \/ ToBytes
  \/ Loopback
  \/ FromBytes
  \/ Corrupt
  \/ Crc16Cal
  \/ CrcAppended
  \/ CrcSwapped

Spec == Init /\ [][Next]_vars

(***************************************************************************)
(* Properties.                                                             *)
(***************************************************************************)
Encoded == pc \in {"encoded", "encoded_default"}
\* The slice from_bytes was called on, and whether it is a corrupted one
Input == Bytes(bytes)
Corrupted == bit # NoBit
\* The sequence byte the call was given: to_bytes is given none
SeqGiven == IF pc = "encoded_default" THEN 0 ELSE seq
\* The 16-bit two's-complement pattern of v, low byte first
TwoBytesLE(v) == <<v % 256, (v \div 256) % 256>>
\* The signed value of the two bytes hi, lo
SignedBE(hi, lo) == IF hi >= 128 THEN 256 * hi + lo - 65536 ELSE 256 * hi + lo
SignedLE(lo, hi) == SignedBE(hi, lo)
Nearest(v, lo, hi) == IF v < lo THEN lo ELSE IF v > hi THEN hi ELSE v

LengthLiteral(k) ==
  CASE k = "ControlAngle" -> 4
    [] k = "AbsZoom" -> 2
    [] k \in {"AutoZoom", "WorkingMode", "Center"} -> 1

CommandId(k) ==
  CASE k = "ControlAngle" -> \h0E
    [] k = "AbsZoom" -> \h0F
    [] k = "AutoZoom" -> \h05
    [] k = "WorkingMode" -> \h19
    [] k = "Center" -> \h08

WirePayload(c) ==
  CASE c.kind = "ControlAngle" ->
         TwoBytesLE(Nearest(c.yaw, -1350, 1350)) \o TwoBytesLE(Nearest(c.pitch, -900, 250))
    [] c.kind = "AbsZoom" -> <<c.zoom.int, c.zoom.fract>>
    [] c.kind = "AutoZoom" ->
         (CASE c.zoom = "ZoomIn" -> <<1>> [] c.zoom = "StopZoom" -> <<0>>
            [] c.zoom = "ZoomOut" -> <<255>>)
    [] c.kind = "WorkingMode" ->
         (CASE c.mode = "LockMode" -> <<0>> [] c.mode = "FollowMode" -> <<1>>
            [] c.mode = "FPVMode" -> <<2>>)
    [] c.kind = "Center" ->
         (CASE c.center_pos = "Default" -> <<0>> [] c.center_pos = "Pos0" -> <<1>>)

\* C1: every encoded frame is 55 66 01, the per-kind length literal (LE16),
\* the sequence byte (0 for to_bytes), 00, the command identifier, the
\* payload of the command and the LE16 checksum of all the bytes before it;
\* ControlAngle(0,-90) with seq 0 and AbsZoom(4.5) with seq 16 give the two
\* byte strings of the tests.
C1_FrameLayout ==
  Encoded =>
    LET n == Len(frame)
    IN  /\ n >= 10
        /\ SubSeq(frame, 1, 3) = <<\h55, \h66, \h01>>
        /\ <<frame[4], frame[5]>> = TwoBytesLE(LengthLiteral(cmd.kind))
        /\ frame[6] = SeqGiven
        /\ frame[7] = \h00
        /\ frame[8] = CommandId(cmd.kind)
        /\ SubSeq(frame, 9, n - 2) = WirePayload(cmd)
        /\ <<frame[n - 1], frame[n]>> = TwoBytesLE(crc16_cal(SubSeq(frame, 1, n - 2)))
        /\ (cmd.kind = "ControlAngle" /\ cmd.yaw = 0 /\ cmd.pitch = -90 /\ SeqGiven = 0)
             => frame = <<\h55, \h66, \h01, \h04, \h00, \h00, \h00, \h0E,
                          \h00, \h00, \hA6, \hFF, \hC0, \h6E>>
        /\ (cmd.kind = "AbsZoom" /\ cmd.zoom = ZoomFactor(4, 5) /\ SeqGiven = 16)
             => frame = <<\h55, \h66, \h01, \h02, \h00, \h10, \h00, \h0F,
                          \h04, \h05, \h6B, \h15>>

C1_Witness ==
  /\ pc = "encoded"
  /\ cmd.kind = "AbsZoom"
  /\ seq = 16
  /\ frame = <<\h55, \h66, \h01, \h02, \h00, \h10, \h00, \h0F, \h04, \h05, \h6B, \h15>>

\* The five conditions under which the documentation says a slice is rejected
Rejected(b) ==
  \/ Len(b) < 2
  \/ b[1] # \h55 \/ b[2] # \h66
  \/ Len(b) < 8
  \/ 10 + SignedLE(b[4], b[5]) # Len(b)
  \/ crc16_cal(SubSeq(b, 1, Len(b) - 2)) # b[Len(b) - 1] + 256 * b[Len(b)]
  \/ b[8] \notin {\h08, \h0E}

\* C2: from_bytes returns an Ack or no value for every slice, never aborts,
\* and returns no value exactly when one of the five rejection conditions holds.
C2_TotalAndExact ==
  pc = "decoded" =>
    /\ ack.tag \in {"Some", "None"}
    /\ (ack.tag = "None") <=> Rejected(Input)

\* C3: every slice of 0 through 7 bytes decodes to no value.
C3_ShortIsNone ==
  (pc = "decoded" /\ Len(Input) < 8) => ack = None

\* C4: an accepted slice with identifier 08 is Center(Success) when offset 8
\* is nonzero and Center(Error) when it is zero; with identifier 0E it is
\* ControlAngle with pitch, yaw, roll the big-endian signed 16-bit values at
\* offsets 8-9, 10-11, 12-13.
C4_AckFields ==
  (pc \in {"decoded", "looped"} /\ ack.tag = "Some") =>
    /\ Input[8] \in {\h08, \h0E}
    /\ Input[8] = \h08 =>
         ack.value = AckCenter(IF Input[9] # 0 THEN "Success" ELSE "Error")
    /\ Input[8] = \h0E =>
         /\ ack.value.kind = "ControlAngle"
         /\ ack.value.angles.pitch = SignedBE(Input[9], Input[10])
         /\ ack.value.angles.yaw = SignedBE(Input[11], Input[12])
         /\ ack.value.angles.roll = SignedBE(Input[13], Input[14])

C4_Witness ==
  /\ pc = "decoded"
  /\ ack.tag = "Some"
  /\ Input[8] = \h0E
  /\ Len(Input) = 16
  /\ ack.value.angles = [pitch |-> -90, yaw |-> 100, roll |-> 0]

\* C5: every encoded frame starts with 55 66, is 10 + its length field long
\* (at most 255 bytes) and ends with the LE16 checksum of the bytes before
\* it, so the decoder's sync, length and checksum checks pass on it: handed
\* to from_bytes it is turned down only for its identifier.
C5_EncodedFrameValid ==
  /\ Encoded =>
       /\ SubSeq(frame, 1, 2) = <<\h55, \h66>>
       /\ Len(frame) = 10 + SignedLE(frame[4], frame[5])
       /\ Len(frame) = 8 + LengthLiteral(cmd.kind) + 2
       /\ Len(frame) <= 255
       /\ frame[Len(frame) - 1] + 256 * frame[Len(frame)]
            = crc16_cal(SubSeq(frame, 1, Len(frame) - 2))
       /\ SyncCheck(frame) = "pass"
       /\ LengthCheck(frame, overflow_checks) = "pass"
       /\ CrcCheck(frame) = "pass"
  /\ pc = "looped" =>
       /\ ack.tag \in {"Some", "None"}
       /\ ack.tag = "None" <=> frame[8] \notin {\h08, \h0E}

C5_Witness ==
  /\ pc = "looped"
  /\ cmd.kind = "ControlAngle"
  /\ cmd.yaw = 1350 /\ cmd.pitch = -900
  /\ ack.tag = "Some"

\* C6: the yaw on the wire (offsets 8-9, LE signed) is the yaw argument
\* moved to the nearest value of [-1350, 1350], the pitch (offsets 10-11)
\* the pitch argument moved to the nearest value of [-900, 250].
C6_AnglesClamped ==
  (Encoded /\ cmd.kind = "ControlAngle") =>
    LET wire_yaw == SignedLE(frame[9], frame[10])
        wire_pitch == SignedLE(frame[11], frame[12])
    IN  /\ wire_yaw \in -1350 .. 1350
        /\ wire_pitch \in -900 .. 250
        /\ wire_yaw = Nearest(cmd.yaw, -1350, 1350)
        /\ wire_pitch = Nearest(cmd.pitch, -900, 250)

C6_Witness ==
  /\ pc = "encoded"
  /\ cmd.kind = "ControlAngle"
  /\ cmd.yaw = -32768 /\ cmd.pitch = 32767
  /\ SignedLE(frame[9], frame[10]) = -1350
  /\ SignedLE(frame[11], frame[12]) = 250

\* C7: from_f32 yields an integer part in 1..30 and a fractional digit in
\* 0..9; inside [1.0, 30.0] they are the floor and the first decimal digit
\* of the argument; outside, the zoom level is the boundary of the range,
\* 1.0 below it and 30.0 above it.
C7_ZoomSaturates ==
  pc = "zoom_done" =>
    /\ zoom.int \in 1 .. 30
    /\ zoom.fract \in 0 .. 9
    /\ (10 <= float /\ float <= 300) => 10 * zoom.int + zoom.fract = float
    /\ float < 10 => 10 * zoom.int + zoom.fract = 10
    /\ float > 300 => 10 * zoom.int + zoom.fract = 300

\* C8: an accepted slice with one bit flipped decodes to no value.
C8_FlipRejected ==
  (pc = "decoded" /\ Corrupted) => ack = None

\* Every flip of a bit of an accepted slice of at most MaxFlipLen bytes is
\* turned down with no value, whatever the build
FlipOfShortRejected ==
  (pc = "decoded" /\ Corrupted /\ orig.zeros = 0) => ack = None

\* C9 as stated: the checksum of the empty sequence is 0, a byte appended
\* changes the checksum, two different bytes exchanged change the checksum.
C9_AppendAlwaysChanges ==
  /\ (pc = "crc_done" /\ ptr = <<>>) => crc = 0
  /\ pc = "crc_appended" => crc # prev_crc
  /\ (pc = "crc_swapped" /\ ptr # prev_ptr) => crc # prev_crc

\* The one byte, if any, that appended to a sequence of checksum c leaves c
Unchanging(c, b) ==
  CRC16_TAB[BitXor8(b, c \div 256) + 1] = BitXor16(c, (c * 256) % 65536)

\* C9: the checksum of the empty sequence is 0; a byte b appended to s
\* changes the checksum except when CRC16_TAB[b ^ (crc >> 8)] = crc ^ (crc << 8)
\* for crc the checksum of s (for a checksum of 0, such as that of the
\* empty sequence, exactly when b is 00); two different bytes exchanged
\* change the checksum.
C9_AppendChangesUnlessFixed ==
  /\ (pc = "crc_done" /\ ptr = <<>>) => crc = 0
  /\ pc = "crc_appended" =>
       /\ (crc = prev_crc) <=> Unchanging(prev_crc, ptr[Len(ptr)])
       /\ prev_crc = 0 => ((crc = prev_crc) <=> (ptr[Len(ptr)] = 0))
  /\ (pc = "crc_swapped" /\ ptr # prev_ptr) => crc # prev_crc

C9_Witness ==
  /\ pc = "crc_appended"
  /\ prev_ptr = <<\hBD, \hCB>>
  /\ ptr = <<\hBD, \hCB, \hBD>>
  /\ crc = prev_crc
  /\ crc = \h76

\* C10: an accepted slice has every offset read as payload inside its
\* declared payload region, offsets 8 .. 8 + declared length - 1: a Center
\* frame declares at least 1 byte, a ControlAngle frame at least 6.
C10_ReadsInsidePayload ==
  (pc \in {"decoded", "looped"} /\ ack.tag = "Some") =>
    LET declared == SignedLE(Input[4], Input[5])
    IN  /\ ack.value.kind = "Center" => declared >= 1
        /\ ack.value.kind = "ControlAngle" => declared >= 6
        /\ \A i \in PayloadReads(ack.value.kind) :
             8 <= i /\ i <= 8 + declared - 1 /\ i < Len(Input) - 2
====
